---- MODULE Spec2Model ----
(***************************************************************************)
(* Update transaction protocol of leodeim/cog.  Three generations of the   *)
(* instance type live in the repository and are modelled side by side,     *)
(* selected by impl:                                                       *)
(*   "C"        cog.C[T]          map registries keyed by int              *)
(*   "Config"   cog.Config[T]     slice registries + signal channels       *)
(*   "goconfig" goconfig.Config[T] signal channels + async callbacks       *)
(* Update runs under the instance mutex from entry to return, so every     *)
(* operation of the instance is one atomic action; goroutines started by   *)
(* Update are separate steps.  trace and ret record the last step: the     *)
(* calls it made in program order, and its arguments and result.           *)
(* SpecLock drops that assumption: there the methods run statement by      *)
(* statement in concurrent threads and the mutex is a variable of its own. *)
(* SpecSignal adds the channel send as a statement and the older Config    *)
(* whose Update takes no lock.  SpecInit runs Init itself, SpecDefaults    *)
(* the resolution of env: and default: tags that Init relies on, and      *)
(* SpecNested the same on records nested two levels deep.  SpecReentry     *)
(* and SpecAsync are SpecLock with observers that call the instance: a     *)
(* fallible one from inside Update, async ones from their goroutines, the  *)
(* latter under the fairness of the scheduler and of sync.Mutex.           *)
(***************************************************************************)
EXTENDS Integers, Sequences, FiniteSets, TLC

\* ---------------------------------------------------------------- bounds
MaxSubs == 3         \* fallible observers at a time, SpecFallible
MaxObs == 1          \* observers per collection at a time, Spec
MaxIds == 2          \* callbacks at a time, SpecRegistry
MaxCalls == 1        \* goroutines started before Update is cut off
MaxTime == 1         \* seconds the wall clock advances
StartTime == 9       \* Unix second at which Init stamped the instance
MaxFields == 2       \* fields of a record that gets resolved

\* ---------------------------------------------------------------- inputs
Impls == {"C", "Config", "goconfig"}

Names == {"", "n"}
Versions == {0, 1}
Snapshots == [Name : Names, Version : Versions]

SubscriberFns == {"ok", "fail", "picky", "nil"}
BoundFns == {"ok", "fail", "picky"}
CallbackFns == {"cb", "nil"}
Counted == CallbackFns \ {"nil"}
Keys == {"k1"}
SaveResults == {"", "filehandler error"}
Threads == {"t1", "t2"}
Methods == {"Update", "Config", "GetTimestamp", "AddSubscriber"}

\* Strings that get parsed are sequences of characters.  Values of the
\* env: tag's variable, literals of the default: tag.
EnvNames == {"TEST_ENV_NAME"}
EnvLits == {<<>>, <<"0">>, <<"7">>, <<"t">>}
DefLits == {<<>>, <<"1">>}
Kinds == {"string", "int", "bool"}
\* A kind the switch of setValue has no case for (reflect.Int64).
OtherKinds == {"int64"}

\* testConfig as Load fills it, and *new(T).
StoredNames == {<<>>, <<"n">>}
StoredSnapshots == [Name : StoredNames, Version : Versions]
ZeroConfig == [Name |-> <<>>, Version |-> 0]
LoadResults == {"", "filehandler error"}

\* ---------------------------------------------------------------- errors
Nil == [kind |-> "nil", cause |-> ""]

Errorf(kind, cause) == [kind |-> kind, cause |-> cause]

\* ---------------------------------------------------------------- helpers
Range(s) == {s[i] : i \in DOMAIN s}

\* The orders in which a range over a Go map with key set S can visit it.
RECURSIVE Perms(_)
Perms(S) == IF S = {} THEN {<<>>}
            ELSE UNION {{<<x>> \o p : p \in Perms(S \ {x})} : x \in S}

Digit(d) == <<"0", "1", "2", "3", "4", "5", "6", "7", "8", "9">>[d + 1]

RECURSIVE FormatInt(_)
FormatInt(n) == IF n < 10 THEN <<Digit(n)>>
                ELSE Append(FormatInt(n \div 10), Digit(n % 10))

\* One call made inside Update: op on observer id (or channel key, or with
\* the handler's answer as key) with the value val.
Event(op, id, key, val) == [op |-> op, id |-> id, key |-> key, val |-> val]

\* ------------------------------------------------------- user functions
\* A Subscriber/Bound is application code: "ok" accepts every value, "fail"
\* rejects every value, "picky" accepts only snapshots named "n".
CallFn(f, d) ==
    CASE f = "ok" -> Nil
      [] f = "fail" -> Errorf("fn", "test error")
      [] f = "picky" -> IF d.Name = "n" THEN Nil ELSE Errorf("fn", "picky error")

\* validate:"required" on the int field Version: the zero value fails.
validate(d) ==
    IF d.Version = 0 THEN Errorf("validate", "failed at validate config") ELSE Nil


\* ----------------------------------------------------------------- state
VARIABLES impl, config, timestamp, now, persisted,
          subscribers, callbacks, bounds, subs, registered,
          pending, calls, due, trace, ret,
          mu, pc, seen, quiet,
          boot, rec, env

vars == <<impl, config, timestamp, now, persisted,
          subscribers, callbacks, bounds, subs, registered,
          pending, calls, due, trace, ret,
          mu, pc, seen, quiet,
          boot, rec, env>>

\* What Init and the resolution of defaults work on: whether Init has
\* returned, the record being resolved, the process environment.
setup == <<boot, rec, env>>

store == <<config, timestamp, now, persisted>>
counters == <<pending, calls, due>>
registries == <<subscribers, callbacks, bounds, subs, registered>>

Ret(op, args, err, id) == [op |-> op, args |-> args, err |-> err, id |-> id]

\* A thread that is in no method of the instance.
Idle == [at |-> "idle", op |-> "", arg |-> <<>>, old |-> <<>>]

\* What Config() and GetTimestamp() return while no method holds the mutex.
Quiet(d, t) == [Config |-> d, GetTimestamp |-> t]

\* A step that is not an Update made no observer call.
Observe(op, args, err, id) ==
    /\ trace' = <<>>
    /\ ret' = Ret(op, args, err, id)
    /\ UNCHANGED <<mu, pc, seen, quiet>>

\* What the struct literal and the make() calls of Init produce, at the
\* second StartTime.
Made ==
    /\ now = StartTime
    /\ subscribers = <<>>
    /\ callbacks = <<>>
    /\ bounds = <<>>
    /\ subs = <<>>
    /\ registered = <<>>
    /\ pending = [f \in Counted |-> 0]
    /\ calls = [f \in Counted |-> 0]
    /\ due = [f \in Counted |-> 0]
    /\ trace = <<>>
    /\ mu = ""
    /\ pc = [th \in Threads |-> Idle]
    /\ seen = [op |-> "", val |-> <<>>, quiet |-> <<>>]

\* State right after a successful Init: load, defaults, validate and save
\* have run, the registries are the freshly made empty maps.
Fresh ==
    /\ Made
    /\ config \in {d \in Snapshots : validate(d) = Nil}
    /\ timestamp = FormatInt(now)
    /\ persisted = config
    /\ ret = Ret("Init", <<>>, Nil, 0)
    /\ quiet = Quiet(config, timestamp)
    /\ boot = "ready"
    /\ rec = <<>>
    /\ env = <<>>

\* State in which Init is called: the instance holds the zero value of T
\* and no timestamp.
Blank ==
    /\ Made
    /\ config = ZeroConfig
    /\ timestamp = <<>>
    /\ ret = Ret("", <<>>, Nil, 0)
    /\ quiet = Quiet(config, timestamp)
    /\ boot = "pending"

Init == impl \in Impls /\ Fresh

\* ------------------------------------------------- shared by all three
updateTimestamp_Stale(t) == timestamp

updateTimestamp(t) == FormatInt(t)

\* save() stamps the time t it reads, then handler.Save(d) answers res.
save(d, t, res, old) ==
    [timestamp |-> updateTimestamp(t),
     now |-> t,
     err |-> IF res = "" THEN Nil ELSE Errorf("save", res),
     persisted |-> IF res = "" THEN d ELSE old,
     ev |-> <<Event("save", 0, res, d)>>]

rollback_Skip(updated, i, cur) == <<>>

rollback_Reverse(updated, i, cur) ==
    [j \in 1..Len(updated) |->
        Event("rollback", updated[Len(updated) + 1 - j], "", cur)]

rollback_All(updated, i, cur) ==
    LET ids == IF impl = "C" THEN registered
               ELSE [j \in 1..Len(bounds) |-> j]
    IN [j \in 1..Len(ids) |-> Event("rollback", ids[j], "", cur)]

\* f(cog.config) for every f of the slice, results dropped.
RECURSIVE rollback(_, _, _)
rollback(updated, i, cur) ==
    IF i > Len(updated) THEN <<>>
    ELSE <<Event("rollback", updated[i], "", cur)>>
            \o rollback(updated, i + 1, cur)

\* Number of goroutines running f that the "go" events of ev started.
Launches(ev, fns, f) ==
    Cardinality({i \in DOMAIN ev : ev[i].op = "go" /\ fns[ev[i].id] = f})

Launched == calls["cb"] + pending["cb"]

Outcome(err, ev, d, t, n, p, ch) ==
    [err |-> err, ev |-> ev, config |-> d, timestamp |-> t, now |-> n,
     persisted |-> p, subs |-> ch]

\* Applies the outcome o of an Update(new) to the state.
Apply(new, o) ==
    /\ Launched < MaxCalls
    /\ config' = o.config
    /\ timestamp' = o.timestamp
    /\ now' = o.now
    /\ persisted' = o.persisted
    /\ subs' = o.subs
    /\ trace' = o.ev
    /\ ret' = Ret("Update", <<new>>, o.err, 0)
    /\ pending' = [f \in Counted |->
                     pending[f] + Launches(o.ev, callbacks, f)]
    /\ due' = [f \in Counted |->
                 IF o.err = Nil
                 THEN due[f] + Cardinality({i \in DOMAIN callbacks :
                                               callbacks[i] = f})
                 ELSE due[f]]
    /\ quiet' = Quiet(o.config, o.timestamp)
    /\ UNCHANGED <<setup, impl, subscribers, callbacks, bounds, registered, calls,
                   mu, pc, seen>>

\* Readings the wall clock can give to a call made now, when it advances
\* by at most adv seconds meanwhile.
Clock(adv) == {t \in now..(now + adv) : t <= StartTime + MaxTime}

\* Update(new) under every answer of the clock and of handler.Save; a call
\* that fails with a working handler never got to read either.
Try(new, U) ==
    IF U[now, ""].err # Nil
    THEN Apply(new, U[now, ""])
    ELSE \E a \in DOMAIN U : Apply(new, U[a])

\* ------------------------------------------------------------ cog.C[T]
RECURSIVE notifySubscribers_FirstOnly(_, _, _, _, _, _)
notifySubscribers_FirstOnly(fns, order, i, new, cur, updated) ==
    IF i > Len(order) THEN [err |-> Nil, ev |-> <<>>]
    ELSE LET id == order[i]
             f == fns[id]
         IN IF f = "nil"
            THEN notifySubscribers_FirstOnly(fns, order, i + 1, new, cur,
                                             updated)
            ELSE IF CallFn(f, new) # Nil
            THEN [err |-> Errorf("subscriber", CallFn(f, new).cause),
                  ev |-> <<Event("call", id, "", new)>>]
            ELSE [err |-> Nil, ev |-> <<Event("call", id, "", new)>>]

\* First loop of notify: the fallible subscribers, in the order the map
\* iteration yields them.
RECURSIVE notifySubscribers(_, _, _, _, _, _)
notifySubscribers(fns, order, i, new, cur, updated) ==
    IF i > Len(order) THEN [err |-> Nil, ev |-> <<>>]
    ELSE LET id == order[i]
             f == fns[id]
         IN IF f = "nil"
            THEN notifySubscribers(fns, order, i + 1, new, cur, updated)
            ELSE IF CallFn(f, new) # Nil
            THEN [err |-> Errorf("subscriber", CallFn(f, new).cause),
                  ev |-> <<Event("call", id, "", new)>>
                           \o rollback(updated, 1, cur)]
            ELSE LET r == notifySubscribers(fns, order, i + 1, new, cur,
                                            Append(updated, id))
                 IN [err |-> r.err,
                     ev |-> <<Event("call", id, "", new)>> \o r.ev]

\* Second loop of notify: go f(config) for every non-nil callback.
RECURSIVE notifyCallbacks(_, _, _, _)
notifyCallbacks(fns, order, i, new) ==
    IF i > Len(order) THEN <<>>
    ELSE IF fns[order[i]] = "nil" THEN notifyCallbacks(fns, order, i + 1, new)
    ELSE <<Event("go", order[i], "", new)>>
            \o notifyCallbacks(fns, order, i + 1, new)

notify_CallbacksFirst(new, order, cbOrder, cur) ==
    LET s == notifySubscribers(subscribers, order, 1, new, cur, <<>>)
    IN [err |-> s.err,
        ev |-> notifyCallbacks(callbacks, cbOrder, 1, new) \o s.ev]

\* notify(config): subscribers first, callbacks only when none rejected.
notify(new, order, cbOrder, cur) ==
    LET s == notifySubscribers(subscribers, order, 1, new, cur, <<>>)
    IN IF s.err # Nil THEN s
       ELSE [err |-> Nil,
             ev |-> s.ev \o notifyCallbacks(callbacks, cbOrder, 1, new)]

UpdateC_NotifyFirst(new, order, cbOrder, t, res) ==
    LET n == notify(new, order, cbOrder, config)
    IN IF n.err # Nil
       THEN Outcome(n.err, n.ev, config, timestamp, now, persisted, subs)
       ELSE IF validate(new) # Nil
       THEN Outcome(validate(new), n.ev, config, timestamp, now, persisted,
                    subs)
       ELSE LET s == save(new, t, res, persisted)
            IN Outcome(s.err, n.ev \o <<Event("store", 0, "", new)>> \o s.ev,
                       new, s.timestamp, s.now, s.persisted, subs)

UpdateC_NoValidate(new, order, cbOrder, t, res) ==
    LET n == notify(new, order, cbOrder, config)
    IN IF n.err # Nil
       THEN Outcome(n.err, n.ev, config, timestamp, now, persisted, subs)
       ELSE LET s == save(new, t, res, persisted)
            IN Outcome(s.err, n.ev \o <<Event("store", 0, "", new)>> \o s.ev,
                       new, s.timestamp, s.now, s.persisted, subs)

UpdateC_Merge(new, order, cbOrder, t, res) ==
    LET merged == IF new.Name = "" THEN [new EXCEPT !.Name = config.Name]
                  ELSE new
    IN IF validate(new) # Nil
       THEN Outcome(validate(new), <<>>, config, timestamp, now, persisted,
                    subs)
       ELSE LET n == notify(new, order, cbOrder, config)
            IN IF n.err # Nil
               THEN Outcome(n.err, n.ev, config, timestamp, now, persisted,
                            subs)
               ELSE LET s == save(merged, t, res, persisted)
                    IN Outcome(s.err,
                               n.ev \o <<Event("store", 0, "", merged)>>
                                    \o s.ev,
                               merged, s.timestamp, s.now, s.persisted, subs)

\* Outcome of C.Update(new): the error returned, the events in program
\* order and the fields as they stand at return.
UpdateC(new, order, cbOrder, t, res) ==
    IF validate(new) # Nil
    THEN Outcome(validate(new), <<>>, config, timestamp, now, persisted, subs)
    ELSE LET n == notify(new, order, cbOrder, config)
         IN IF n.err # Nil
            THEN Outcome(n.err, n.ev, config, timestamp, now, persisted, subs)
            ELSE LET s == save(new, t, res, persisted)
                 IN Outcome(s.err,
                            n.ev \o <<Event("store", 0, "", new)>> \o s.ev,
                            new, s.timestamp, s.now, s.persisted, subs)

C_Update(adv) ==
    /\ impl = "C"
    /\ \E order \in Perms(DOMAIN subscribers),
          cbOrder \in Perms(DOMAIN callbacks), new \in Snapshots :
            Try(new, [t \in Clock(adv), res \in SaveResults |->
                       UpdateC(new, order, cbOrder, t, res)])

\* l := len(m) + 1; m[l] = f
Put(m, f) ==
    LET l == Cardinality(DOMAIN m) + 1
    IN [i \in DOMAIN m \cup {l} |-> IF i = l THEN f ELSE m[i]]

Delete_Keep(m, id) == m

\* delete(m, id)
Delete(m, id) == [i \in DOMAIN m \ {id} |-> m[i]]

Without(s, id) == SelectSeq(s, LAMBDA x : x # id)

C_AddCallback_Restamp(max) ==
    /\ impl = "C"
    /\ Cardinality(DOMAIN callbacks) < max
    /\ \E f \in CallbackFns :
         /\ callbacks' = Put(callbacks, f)
         /\ Observe("AddCallback", <<f>>, Nil, Cardinality(DOMAIN callbacks) + 1)
    /\ timestamp' = <<>>
    /\ UNCHANGED <<setup, impl, config, now, persisted, subscribers, bounds,
                   subs, registered, counters>>

C_AddCallback(max) ==
    /\ impl = "C"
    /\ Cardinality(DOMAIN callbacks) < max
    /\ \E f \in CallbackFns :
         /\ callbacks' = Put(callbacks, f)
         /\ Observe("AddCallback", <<f>>, Nil, Cardinality(DOMAIN callbacks) + 1)
    /\ UNCHANGED <<setup, impl, store, subscribers, bounds, subs, registered,
                   counters>>

C_RemoveCallback_Silent(max) ==
    /\ impl = "C"
    /\ \E id \in 1..(max + 1) :
         /\ callbacks' = IF id \in DOMAIN callbacks
                          THEN Delete(callbacks, id) ELSE callbacks
         /\ Observe("RemoveCallback", <<id>>, Nil, id)
    /\ UNCHANGED <<setup, impl, store, subscribers, bounds, subs, registered,
                   counters>>

C_RemoveCallback(max) ==
    /\ impl = "C"
    /\ \E id \in 1..(max + 1) :
         IF id \in DOMAIN callbacks
         THEN /\ callbacks' = Delete(callbacks, id)
              /\ Observe("RemoveCallback", <<id>>, Nil, id)
         ELSE /\ callbacks' = callbacks
              /\ Observe("RemoveCallback", <<id>>,
                         Errorf("notfound", "callback"), id)
    /\ UNCHANGED <<setup, impl, store, subscribers, bounds, subs, registered,
                   counters>>

C_AddSubscriber(max) ==
    /\ impl = "C"
    /\ Cardinality(DOMAIN subscribers) < max
    /\ \E f \in SubscriberFns :
         LET l == Cardinality(DOMAIN subscribers) + 1
         IN /\ subscribers' = Put(subscribers, f)
            /\ registered' = Append(Without(registered, l), l)
            /\ Observe("AddSubscriber", <<f>>, Nil, l)
    /\ UNCHANGED <<setup, impl, store, callbacks, bounds, subs, counters>>

C_RemoveSubscriber(max) ==
    /\ impl = "C"
    /\ \E id \in 1..(max + 1) :
         IF id \in DOMAIN subscribers
         THEN /\ subscribers' = Delete(subscribers, id)
              /\ registered' = Without(registered, id)
              /\ Observe("RemoveSubscriber", <<id>>, Nil, id)
         ELSE /\ UNCHANGED <<subscribers, registered>>
              /\ Observe("RemoveSubscriber", <<id>>,
                         Errorf("notfound", "subscriber"), id)
    /\ UNCHANGED <<setup, impl, store, callbacks, bounds, subs, counters>>

\* ------------------------------------------------------- cog.Config[T]
RECURSIVE bound_Reverse(_, _, _, _)
bound_Reverse(i, new, cur, used) ==
    IF i > Len(bounds) THEN [err |-> Nil, ev |-> <<>>]
    ELSE LET j == Len(bounds) + 1 - i
         IN IF CallFn(bounds[j], new) # Nil
            THEN [err |-> Errorf("subscriber", CallFn(bounds[j], new).cause),
                  ev |-> <<Event("call", j, "", new)>>
                           \o rollback(used, 1, cur)]
            ELSE LET r == bound_Reverse(i + 1, new, cur, Append(used, j))
                 IN [err |-> r.err,
                     ev |-> <<Event("call", j, "", new)>> \o r.ev]

\* bound(new): the bound callbacks in slice order; on the first error the
\* ones used so far are rolled back with c.data.
RECURSIVE bound(_, _, _, _)
bound(i, new, cur, used) ==
    IF i > Len(bounds) THEN [err |-> Nil, ev |-> <<>>]
    ELSE IF CallFn(bounds[i], new) # Nil
    THEN [err |-> Errorf("subscriber", CallFn(bounds[i], new).cause),
          ev |-> <<Event("call", i, "", new)>> \o rollback(used, 1, cur)]
    ELSE LET r == bound(i + 1, new, cur, Append(used, i))
         IN [err |-> r.err, ev |-> <<Event("call", i, "", new)>> \o r.ev]

\* select { case ch <- true: default: } for every channel of the map.
RECURSIVE signal(_, _, _, _)
signal(ch, order, i, d) ==
    IF i > Len(order) THEN [subs |-> ch, ev |-> <<>>]
    ELSE LET k == order[i]
         IN IF ch[k] = 0
            THEN LET r == signal([ch EXCEPT ![k] = 1], order, i + 1, d)
                 IN [subs |-> r.subs,
                     ev |-> <<Event("signal", 0, k, d)>> \o r.ev]
            ELSE signal(ch, order, i + 1, d)

\* go cb(c.data) for every callback of the slice.
goCallbacks(d) == [i \in 1..Len(callbacks) |-> Event("go", i, "", d)]

Config_notify(keyOrder, d) ==
    LET s == signal(subs, keyOrder, 1, d)
    IN [subs |-> s.subs, ev |-> s.ev \o goCallbacks(d)]

UpdateConfig_StoreFirst(new, keyOrder, t, res) ==
    IF validate(new) # Nil
    THEN Outcome(validate(new), <<>>, config, timestamp, now, persisted, subs)
    ELSE LET b == bound(1, new, config, <<>>)
         IN IF b.err # Nil
            THEN Outcome(b.err, <<Event("store", 0, "", new)>> \o b.ev, new,
                         timestamp, now, persisted, subs)
            ELSE LET s == save(new, t, res, persisted)
                     ev == <<Event("store", 0, "", new)>> \o b.ev \o s.ev
                 IN IF s.err # Nil
                    THEN Outcome(s.err, ev, new, s.timestamp, s.now,
                                 s.persisted, subs)
                    ELSE LET n == Config_notify(keyOrder, new)
                         IN Outcome(Nil, ev \o n.ev, new, s.timestamp, s.now,
                                    s.persisted, n.subs)

UpdateConfig_RollbackOnSave(new, keyOrder, t, res) ==
    IF validate(new) # Nil
    THEN Outcome(validate(new), <<>>, config, timestamp, now, persisted, subs)
    ELSE LET b == bound(1, new, config, <<>>)
         IN IF b.err # Nil
            THEN Outcome(b.err, b.ev, config, timestamp, now, persisted, subs)
            ELSE LET s == save(new, t, res, persisted)
                     ev == b.ev \o <<Event("store", 0, "", new)>> \o s.ev
                 IN IF s.err # Nil
                    THEN Outcome(s.err, ev, config, s.timestamp, s.now,
                                 s.persisted, subs)
                    ELSE LET n == Config_notify(keyOrder, new)
                         IN Outcome(Nil, ev \o n.ev, new, s.timestamp, s.now,
                                    s.persisted, n.subs)

\* Outcome of Config.Update(new).
UpdateConfig(new, keyOrder, t, res) ==
    IF validate(new) # Nil
    THEN Outcome(validate(new), <<>>, config, timestamp, now, persisted, subs)
    ELSE LET b == bound(1, new, config, <<>>)
         IN IF b.err # Nil
            THEN Outcome(b.err, b.ev, config, timestamp, now, persisted, subs)
            ELSE LET s == save(new, t, res, persisted)
                     ev == b.ev \o <<Event("store", 0, "", new)>> \o s.ev
                 IN IF s.err # Nil
                    THEN Outcome(s.err, ev, new, s.timestamp, s.now,
                                 s.persisted, subs)
                    ELSE LET n == Config_notify(keyOrder, new)
                         IN Outcome(Nil, ev \o n.ev, new, s.timestamp, s.now,
                                    s.persisted, n.subs)

Config_Update(adv) ==
    /\ impl = "Config"
    /\ \E keyOrder \in Perms(DOMAIN subs), new \in Snapshots :
         Try(new, [t \in Clock(adv), res \in SaveResults |->
                       UpdateConfig(new, keyOrder, t, res)])

\* A nil Bound is left out: bound() calls it without a check.
Config_AddBound(max) ==
    /\ impl = "Config"
    /\ Len(bounds) < max
    /\ \E f \in BoundFns :
         /\ bounds' = Append(bounds, f)
         /\ Observe("AddBound", <<f>>, Nil, 0)
    /\ UNCHANGED <<setup, impl, store, subscribers, callbacks, subs, registered,
                   counters>>

Config_AddCallback ==
    /\ impl \in {"Config", "goconfig"}
    /\ Len(callbacks) < MaxObs
    /\ callbacks' = Append(callbacks, "cb")
    /\ Observe("AddCallback", <<"cb">>, Nil, 0)
    /\ UNCHANGED <<setup, impl, store, subscribers, bounds, subs, registered,
                   counters>>

\* c.subscribers[key] = make(chan bool, 1)
Config_AddSubscriber ==
    /\ impl \in {"Config", "goconfig"}
    /\ \E key \in Keys :
         /\ subs' = [k \in DOMAIN subs \cup {key} |->
                       IF k = key THEN 0 ELSE subs[k]]
         /\ Observe("AddSubscriber", <<key>>, Nil, 0)
    /\ UNCHANGED <<setup, impl, store, subscribers, callbacks, bounds, registered,
                   counters>>

Config_RemoveSubscriber ==
    /\ impl \in {"Config", "goconfig"}
    /\ \E key \in Keys :
         /\ subs' = [k \in DOMAIN subs \ {key} |-> subs[k]]
         /\ Observe("RemoveSubscriber", <<key>>, Nil, 0)
    /\ UNCHANGED <<setup, impl, store, subscribers, callbacks, bounds, registered,
                   counters>>

Config_GetSubscriber_Silent ==
    /\ impl \in {"Config", "goconfig"}
    /\ \E key \in Keys : Observe("GetSubscriber", <<key>>, Nil, 0)
    /\ UNCHANGED <<setup, impl, store, registries, counters>>

\* if ch, ok := c.subscribers[key]; ok { return ch, nil }
\* return nil, fmt.Errorf("subscriber is not registered: %s", key)
Config_GetSubscriber ==
    /\ impl \in {"Config", "goconfig"}
    /\ \E key \in Keys :
         Observe("GetSubscriber", <<key>>,
                 IF key \in DOMAIN subs THEN Nil
                 ELSE Errorf("subscriber", "subscriber is not registered"), 0)
    /\ UNCHANGED <<setup, impl, store, registries, counters>>

\* ---------------------------------------------------- goconfig.Config[T]
RECURSIVE sendIfEmpty_Always(_, _, _, _)
sendIfEmpty_Always(ch, order, i, d) ==
    IF i > Len(order) THEN [subs |-> ch, ev |-> <<>>]
    ELSE LET k == order[i]
             r == sendIfEmpty_Always([ch EXCEPT ![k] = @ + 1], order, i + 1, d)
         IN [subs |-> r.subs, ev |-> <<Event("signal", 0, k, d)>> \o r.ev]

RECURSIVE sendIfEmpty_Inverted(_, _, _, _)
sendIfEmpty_Inverted(ch, order, i, d) ==
    IF i > Len(order) THEN [subs |-> ch, ev |-> <<>>]
    ELSE LET k == order[i]
         IN IF ch[k] = 0
            THEN sendIfEmpty_Inverted(ch, order, i + 1, d)
            ELSE LET r == sendIfEmpty_Inverted(ch, order, i + 1, d)
                 IN [subs |-> r.subs,
                     ev |-> <<Event("signal", 0, k, d)>> \o r.ev]

\* if len(channel) != 0 { continue }; channel <- true
RECURSIVE sendIfEmpty(_, _, _, _)
sendIfEmpty(ch, order, i, d) ==
    IF i > Len(order) THEN [subs |-> ch, ev |-> <<>>]
    ELSE LET k == order[i]
         IN IF ch[k] # 0
            THEN sendIfEmpty(ch, order, i + 1, d)
            ELSE LET r == sendIfEmpty([ch EXCEPT ![k] = @ + 1], order, i + 1, d)
                 IN [subs |-> r.subs,
                     ev |-> <<Event("signal", 0, k, d)>> \o r.ev]

UpdateGoconfig_NoRestore(new, keyOrder, t, res) ==
    LET data == new
    IN IF validate(data) # Nil
       THEN Outcome(validate(data), <<>>, data, timestamp, now, persisted,
                    subs)
       ELSE LET s == save(data, t, res, persisted)
                ev == <<Event("store", 0, "", data)>> \o s.ev
            IN IF s.err # Nil
               THEN Outcome(s.err, ev, data, s.timestamp, s.now, s.persisted,
                            subs)
               ELSE LET n == sendIfEmpty(subs, keyOrder, 1, data)
                    IN Outcome(Nil, ev \o n.ev \o goCallbacks(data), data,
                               s.timestamp, s.now, s.persisted, n.subs)

\* Outcome of goconfig's Config.Update(new): c.data = new comes first and
\* is undone when validation fails.
UpdateGoconfig(new, keyOrder, t, res) ==
    LET old == config
        data == new
    IN IF validate(data) # Nil
       THEN Outcome(validate(data), <<>>, old, timestamp, now, persisted, subs)
       ELSE LET s == save(data, t, res, persisted)
                ev == <<Event("store", 0, "", data)>> \o s.ev
            IN IF s.err # Nil
               THEN Outcome(s.err, ev, data, s.timestamp, s.now, s.persisted,
                            subs)
               ELSE LET n == sendIfEmpty(subs, keyOrder, 1, data)
                    IN Outcome(Nil, ev \o n.ev \o goCallbacks(data), data,
                               s.timestamp, s.now, s.persisted, n.subs)

goconfig_Update(adv) ==
    /\ impl = "goconfig"
    /\ \E keyOrder \in Perms(DOMAIN subs), new \in Snapshots :
         Try(new, [t \in Clock(adv), res \in SaveResults |->
                       UpdateGoconfig(new, keyOrder, t, res)])

\* -------------------------------------------------------- environment
\* A goroutine started by "go f(config)" runs to completion.
RunCallback ==
    /\ \E f \in Counted :
         /\ pending[f] > 0
         /\ pending' = [pending EXCEPT ![f] = @ - 1]
         /\ calls' = [calls EXCEPT ![f] = @ + 1]
         /\ Observe("RunCallback", <<f>>, Nil, 0)
    /\ UNCHANGED <<setup, impl, store, subscribers, callbacks, bounds, subs,
                   registered, due>>

\* The consumer of a signal channel takes the pending token: <-ch
Receive ==
    /\ \E key \in DOMAIN subs :
         /\ subs[key] > 0
         /\ subs' = [subs EXCEPT ![key] = @ - 1]
         /\ Observe("Receive", <<key>>, Nil, 0)
    /\ UNCHANGED <<setup, impl, store, subscribers, callbacks, bounds, registered,
                   counters>>

\* ------------------------------------------------------------ defaults
\* The resolution of env: and default: tags.  A record is a sequence of
\* fields; a field has a kind, a value, the two tags, whether it is
\* exported (CanSet) and, for kind "struct", the fields of the nested
\* record.  Three engines live in the repository: pkg/defaults of cog.C and
\* cog.Config, the root package's SetDefaults (impl = "cog"), and
\* internal/defaults of goconfig and of the older Config, which knows the
\* default: tag only.
Engine ==
    CASE impl \in {"goconfig", "legacy"} -> "internal"
      [] impl = "cog" -> "root"
      [] OTHER -> "pkg"

Field(kind, val, e, def, exported, inner) ==
    [kind |-> kind, val |-> val, env |-> e, def |-> def,
     exported |-> exported, inner |-> inner]

Zero(kind) ==
    CASE kind = "string" -> <<>>
      [] kind = "int" -> 0
      [] kind = "bool" -> FALSE
      [] kind = "int64" -> 0
      [] OTHER -> <<>>

Digits == {Digit(d) : d \in 0..9}

DigitVal(c) == CHOOSE d \in 0..9 : Digit(d) = c

RECURSIVE Number(_)
Number(s) ==
    IF s = <<>> THEN 0
    ELSE 10 * Number(SubSeq(s, 1, Len(s) - 1)) + DigitVal(s[Len(s)])

\* strconv.Atoi: an optional sign and at least one decimal digit.
Atoi(s) ==
    LET signed == Len(s) > 0 /\ s[1] \in {"+", "-"}
        body == IF signed THEN Tail(s) ELSE s
        ok == Len(body) > 0 /\ \A i \in 1..Len(body) : body[i] \in Digits
    IN [ok |-> ok,
        val |-> IF ~ok THEN 0
                ELSE IF signed /\ s[1] = "-" THEN 0 - Number(body)
                ELSE Number(body)]

\* strconv.ParseBool: the twelve accepted spellings.
ParseBool(s) ==
    LET yes == {<<"1">>, <<"t">>, <<"T">>, <<"T", "R", "U", "E">>,
                <<"t", "r", "u", "e">>, <<"T", "r", "u", "e">>}
        no == {<<"0">>, <<"f">>, <<"F">>, <<"F", "A", "L", "S", "E">>,
               <<"f", "a", "l", "s", "e">>, <<"F", "a", "l", "s", "e">>}
    IN [ok |-> s \in yes \cup no, val |-> s \in yes]

isEmpty_Always(f) == TRUE

isEmpty_Never(f) == FALSE

\* reflect.DeepEqual(v.Interface(), reflect.Zero(v.Type()).Interface())
RECURSIVE isEmpty(_)
isEmpty(f) ==
    IF f.kind = "struct"
    THEN \A j \in 1..Len(f.inner) : isEmpty(f.inner[j])
    ELSE f.val = Zero(f.kind)

assign_AnyInteger(f, val) ==
    CASE f.kind \in {"int", "int64"} ->
           IF Atoi(val).ok THEN [f EXCEPT !.val = Atoi(val).val] ELSE f
      [] f.kind = "string" -> [f EXCEPT !.val = val]
      [] f.kind = "bool" ->
           IF ParseBool(val).ok THEN [f EXCEPT !.val = ParseBool(val).val]
           ELSE f
      [] OTHER -> f

\* The switch on field.Kind() of setValue.
assign(f, val) ==
    CASE f.kind = "int" ->
           IF Atoi(val).ok THEN [f EXCEPT !.val = Atoi(val).val] ELSE f
      [] f.kind = "string" -> [f EXCEPT !.val = val]
      [] f.kind = "bool" ->
           IF ParseBool(val).ok THEN [f EXCEPT !.val = ParseBool(val).val]
           ELSE f
      [] OTHER -> f

setValue_Merge(f, val) ==
    IF val = <<>> \/ ~f.exported THEN [f |-> f, err |-> Nil]
    ELSE [f |-> CASE f.kind = "string" -> [f EXCEPT !.val = @ \o val]
                  [] f.kind = "int" -> [f EXCEPT !.val = @ + Atoi(val).val]
                  [] OTHER -> assign(f, val),
          err |-> Nil]

\* setValue: pkg/defaults and internal/defaults test CanSet first and
\* return an error; the root package tests isEmpty first, and Interface()
\* panics on a field that is not exported.
setValue(f, val) ==
    IF val = <<>> THEN [f |-> f, err |-> Nil]
    ELSE IF ~f.exported
         THEN [f |-> f,
               err |-> IF Engine = "root"
                       THEN Errorf("panic", "reflect.Value.Interface")
                       ELSE Errorf("defaults", "can't set value")]
         ELSE IF ~isEmpty(f) THEN [f |-> f, err |-> Nil]
              ELSE [f |-> assign(f, val), err |-> Nil]

\* os.Getenv(sf.Tag.Get("env")), "" without the tag.
environmentValue(f, e) == IF f.env # "" THEN e[f.env] ELSE <<>>

defaultValue(f) == f.def

\* The values of var tags, in order.
tags(f, e) ==
    IF Engine = "internal" THEN <<defaultValue(f)>>
    ELSE <<environmentValue(f, e), defaultValue(f)>>

\* for _, getValue := range tags { setValue(f, getValue(sf)) }
RECURSIVE setField(_, _, _)
setField(f, vals, n) ==
    IF n > Len(vals) THEN [f |-> f, err |-> Nil]
    ELSE LET r == setValue(f, vals[n])
         IN IF r.err # Nil THEN r ELSE setField(r.f, vals, n + 1)

\* for i := 0; i < t.NumField(); i++ { setField(t.Field(i), v.Field(i)) }
RECURSIVE setFields(_, _, _)
setFields(v, j, e) ==
    IF j > Len(v) THEN [rec |-> v, err |-> Nil]
    ELSE LET r == setField(v[j], tags(v[j], e), 1)
         IN IF r.err # Nil THEN [rec |-> v, err |-> r.err]
            ELSE setFields([v EXCEPT ![j] = r.f], j + 1, e)

\* setNested: a struct field is resolved recursively, its error dropped;
\* at every other field the loop over all the fields runs once more.
RECURSIVE setNested(_, _, _)
setNested(v, i, e) ==
    IF i > Len(v) THEN [rec |-> v, err |-> Nil]
    ELSE IF v[i].kind = "struct"
         THEN LET r == setNested(v[i].inner, 1, e)
                  w == [v EXCEPT ![i].inner = r.rec]
              IN IF r.err.kind = "panic" THEN [rec |-> w, err |-> r.err]
                 ELSE setNested(w, i + 1, e)
         ELSE LET r == setFields(v, 1, e)
              IN IF r.err # Nil THEN r ELSE setNested(r.rec, i + 1, e)

\* defaults.Set(&data), resp. SetDefaults(&data)
Set(v, e) ==
    IF Engine = "internal" THEN setFields(v, 1, e) ELSE setNested(v, 1, e)

\* The records that get resolved: up to MaxFields fields, each with a tag;
\* a nested record has one empty field with a default literal.
NonZero(kind) ==
    CASE kind = "string" -> <<"n">>
      [] kind = "int" -> 3
      [] kind = "bool" -> TRUE
      [] kind = "int64" -> 3

TagPairs ==
    {p \in {"", "TEST_ENV_NAME"} \X DefLits : p[1] # "" \/ p[2] # <<>>}

Tagged(kinds, exported) ==
    {Field(k, v, p[1], p[2], x, <<>>) :
        k \in kinds, v \in {0, 1}, p \in TagPairs, x \in exported}

Plain ==
    {[f EXCEPT !.val = IF f.val = 0 THEN Zero(f.kind) ELSE NonZero(f.kind)] :
        f \in Tagged(Kinds, {TRUE})
                \cup {g \in Tagged({"string"}, {FALSE}) : g.val = 0}
                \cup {g \in Tagged(OtherKinds, {TRUE}) :
                         g.val = 0 \/ (g.env # "" /\ g.def # <<>>)}}

Nested ==
    {Field("struct", <<>>, "", <<>>, TRUE, <<f>>) :
        f \in {g \in Plain : /\ g.kind \in Kinds
                              /\ g.exported
                              /\ g.val = Zero(g.kind)
                              /\ g.def # <<>>}}

Records == UNION {[1..n -> Plain \cup Nested] : n \in 1..MaxFields}

Environments == [EnvNames -> EnvLits]

\* One run of the resolution on rec; trace keeps the argument of the first
\* run and of the latest run after it.
Resolve ==
    /\ LET r == Set(rec, env)
       IN /\ rec' = r.rec
          /\ ret' = Ret("Set", <<rec>>, r.err, 0)
          /\ trace' = IF trace = <<>> THEN <<Event("Set", 1, "", rec)>>
                      ELSE <<trace[1], Event("Set", 2, "", rec)>>
    /\ UNCHANGED <<boot, env, impl, store, registries, counters, mu, pc, seen,
                   quiet>>

InitDefaults ==
    /\ impl \in {"C", "cog"}
    /\ Blank
    /\ persisted = ZeroConfig
    /\ rec \in Records
    /\ env \in Environments

NextDefaults == Resolve

SpecDefaults == InitDefaults /\ [][NextDefaults]_vars

\* Records nested two levels deep.  The scalar fields are empty and carry
\* a default literal; one is exported, the other is not.
Scalars ==
    {Field("int", 0, "", <<"1">>, TRUE, <<>>),
     Field("string", <<>>, "", <<"1">>, FALSE, <<>>)}

Struct(r) == Field("struct", <<>>, "", <<>>, TRUE, r)

UpTo(S, n) == UNION {[1..m -> S] : m \in 1..n}

Leaves == UpTo(Scalars, 2)

Branches == Leaves \cup {<<Struct(r)>> : r \in Leaves}

Trees == UpTo(Scalars \cup {Struct(r) : r \in Branches}, MaxFields)

InitNested ==
    /\ impl \in {"C", "cog"}
    /\ Blank
    /\ persisted = ZeroConfig
    /\ rec \in Trees
    /\ env \in Environments

SpecNested == InitNested /\ [][NextDefaults]_vars

\* ---------------------------------------------------------------- Init
\* testConfig as the record the resolution works on, and back.
ToRec(d) ==
    <<Field("string", d.Name, "TEST_ENV_NAME", <<"a", "p", "p">>, TRUE, <<>>),
      Field("int", d.Version, "", <<>>, TRUE, <<>>)>>

FromRec(r) == [Name |-> r[1].val, Version |-> r[2].val]

InitOutcome(b, err, ev, d, t, n, p) ==
    [boot |-> b, err |-> err, ev |-> ev, config |-> d, timestamp |-> t,
     now |-> n, persisted |-> p]

\* What handler.Load leaves in the instance: the storage content, or the
\* zero value after load() of C, Config and goconfig has reset it.
Loaded(loadRes) == IF loadRes = "" THEN persisted ELSE ZeroConfig

cog_Init_NoValidate(loadRes, t, res) ==
    LET d == Set(ToRec(Loaded(loadRes)), env)
        data == FromRec(d.rec)
        s == save(data, t, res, persisted)
        ev == <<Event("load", 0, loadRes, Loaded(loadRes))>>
    IN InitOutcome(IF s.err # Nil THEN "failed" ELSE "ready", s.err,
                   ev \o s.ev, IF s.err # Nil THEN config ELSE data,
                   IF s.err # Nil THEN timestamp ELSE s.timestamp,
                   s.now, s.persisted)

cog_Init_IgnoreSave(loadRes, t, res) ==
    LET d == Set(ToRec(Loaded(loadRes)), env)
        data == FromRec(d.rec)
        s == save(data, t, res, persisted)
        ev == <<Event("load", 0, loadRes, Loaded(loadRes))>>
    IN IF validate(data) # Nil
       THEN InitOutcome("failed", validate(data), ev, config, timestamp, now,
                        persisted)
       ELSE InitOutcome("ready", Nil, ev \o s.ev, data, s.timestamp, s.now,
                        s.persisted)

\* Outcome of Init when Load answers loadRes, the clock t and Save res.
\* C, Config and goconfig: load, defaults, validate, save.  The older
\* Config: Load, validate, defaults, stamp, Save, and a Load error ends it.
cog_Init(loadRes, t, res) ==
    LET d == Set(ToRec(Loaded(loadRes)), env)
        data == FromRec(d.rec)
        s == save(data, t, res, persisted)
        ev == <<Event("load", 0, loadRes, Loaded(loadRes))>>
        Failed(err) ==
            InitOutcome("failed", err, ev, config, timestamp, now, persisted)
        Saved ==
            InitOutcome(IF s.err # Nil THEN "failed" ELSE "ready", s.err,
                        ev \o s.ev, IF s.err # Nil THEN config ELSE data,
                        IF s.err # Nil THEN timestamp ELSE s.timestamp,
                        s.now, s.persisted)
    IN IF impl = "legacy"
       THEN IF loadRes # ""
            THEN Failed(Errorf("load", "failed at load from config"))
            ELSE IF validate(Loaded(loadRes)) # Nil
                 THEN Failed(validate(Loaded(loadRes)))
                 ELSE IF d.err # Nil THEN Failed(d.err) ELSE Saved
       ELSE IF d.err # Nil THEN Failed(d.err)
            ELSE IF validate(data) # Nil THEN Failed(validate(data))
                 ELSE Saved

\* Init returns with the outcome o.
Return(o) ==
    /\ boot' = o.boot
    /\ config' = o.config
    /\ timestamp' = o.timestamp
    /\ now' = o.now
    /\ persisted' = o.persisted
    /\ trace' = o.ev
    /\ ret' = Ret("Init", <<>>, o.err, 0)
    /\ quiet' = Quiet(o.config, o.timestamp)
    /\ UNCHANGED <<rec, env, impl, registries, counters, mu, pc, seen>>

\* Init runs from call to return.
Boot(adv) ==
    /\ boot = "pending"
    /\ \E loadRes \in LoadResults, t \in Clock(adv), res \in SaveResults :
         Return(cog_Init(loadRes, t, res))

InitBoot ==
    /\ impl \in Impls \cup {"legacy"}
    /\ Blank
    /\ persisted \in StoredSnapshots
    /\ rec = <<>>
    /\ env \in Environments

NextBoot == Boot(MaxTime)

SpecInit == InitBoot /\ [][NextBoot]_vars

\* ------------------------------------------------------ specifications
\* Every operation of the three generations, small registries.
Next ==
    \/ C_Update(MaxTime)
    \/ C_AddCallback(MaxObs)
    \/ C_RemoveCallback(MaxObs)
    \/ C_AddSubscriber(MaxObs)
    \/ C_RemoveSubscriber(MaxObs)
    \/ Config_Update(MaxTime)
    \/ Config_AddBound(MaxObs)
    \/ Config_AddCallback
    \/ Config_AddSubscriber
    \/ Config_RemoveSubscriber
    \/ goconfig_Update(MaxTime)
    \/ RunCallback
    \/ Receive

Spec == Init /\ [][Next]_vars

\* The fallible observers alone, up to MaxSubs of them, the clock standing
\* still.
InitFallible == Init /\ impl \in {"C", "Config"}

NextFallible ==
    \/ C_Update(0)
    \/ C_AddSubscriber(MaxSubs)
    \/ C_RemoveSubscriber(MaxSubs)
    \/ Config_Update(0)
    \/ Config_AddBound(MaxSubs)

SpecFallible == InitFallible /\ [][NextFallible]_vars

\* The two id-keyed maps of cog.C, up to MaxIds callbacks and MaxObs
\* subscribers, the clock standing still, the goroutines left alone.
InitRegistry == Init /\ impl = "C"

NextRegistry ==
    \/ C_Update(0)
    \/ C_AddSubscriber(MaxObs)
    \/ C_RemoveSubscriber(MaxObs)
    \/ C_AddCallback(MaxIds)
    \/ C_RemoveCallback(MaxIds)

SpecRegistry == InitRegistry /\ [][NextRegistry]_vars

\* The signal channels of Config and goconfig alone: registration, lookup,
\* removal, Update and the consumer.
InitSlots == Init /\ impl \in {"Config", "goconfig"}

NextSlots ==
    \/ Config_Update(MaxTime)
    \/ goconfig_Update(MaxTime)
    \/ Config_AddSubscriber
    \/ Config_GetSubscriber
    \/ Config_RemoveSubscriber
    \/ Receive

SpecSlots == InitSlots /\ [][NextSlots]_vars

\* --------------------------------------------------- under the mutex
\* The methods statement by statement, each called by a thread of Threads.
\* pc[th] holds the method th is in, its argument, the statement it is at
\* and the local old of goconfig's Update.
At(th, a) == pc[th].at = a

Goto(th, a) == pc' = [pc EXCEPT ![th].at = a]

Acquire_NoWait(th) == mu' = th

Acquire_Reentrant(th) == mu \in {"", th} /\ mu' = th

\* Lock(): blocks while another thread holds the mutex.
Acquire(th) == mu = "" /\ mu' = th

\* th calls a method and arrives at its Lock().
Call(th) ==
    /\ At(th, "idle")
    /\ \E op \in Methods, new \in Snapshots, key \in Keys :
         /\ op = "AddSubscriber" =>
               IF impl = "C" THEN Cardinality(DOMAIN subscribers) < MaxObs
               ELSE key \notin DOMAIN subs
         /\ pc' = [pc EXCEPT ![th] =
                     [at |-> "lock", op |-> op, old |-> <<>>,
                      arg |-> CASE op = "Update" -> <<new>>
                                [] op = "AddSubscriber" -> <<key>>
                                [] OTHER -> <<>>]]
    /\ UNCHANGED <<setup, impl, store, registries, counters, trace, ret, mu, seen,
                   quiet>>

Lock(th) ==
    /\ At(th, "lock")
    /\ Acquire(th)
    /\ Goto(th, CASE pc[th].op = "Update" ->
                       IF impl = "goconfig" THEN "assign" ELSE "validate"
                  [] pc[th].op = "AddSubscriber" -> "put"
                  [] OTHER -> "read")
    /\ UNCHANGED <<setup, impl, store, registries, counters, trace, ret, seen, quiet>>

\* goconfig: old := c.data; c.data = new
Assign(th) ==
    /\ At(th, "assign")
    /\ config' = pc[th].arg[1]
    /\ pc' = [pc EXCEPT ![th].at = "validate", ![th].old = <<config>>]
    /\ UNCHANGED <<setup, impl, timestamp, now, persisted, registries, counters,
                   trace, ret, mu, seen, quiet>>

Validate_ReturnLocked(th) ==
    /\ At(th, "validate")
    /\ IF impl = "goconfig"
       THEN IF validate(config) # Nil
            THEN config' = pc[th].old[1] /\ Goto(th, "unlock")
            ELSE config' = config /\ Goto(th, "stamp")
       ELSE /\ config' = config
            /\ IF validate(pc[th].arg[1]) # Nil
               THEN pc' = [pc EXCEPT ![th] = Idle]
               ELSE Goto(th, "observers")
    /\ UNCHANGED <<setup, impl, timestamp, now, persisted, registries, counters,
                   trace, ret, mu, seen, quiet>>

\* validate(new), resp. c.validate() followed by c.data = old on failure.
Validate(th) ==
    /\ At(th, "validate")
    /\ IF impl = "goconfig"
       THEN IF validate(config) # Nil
            THEN config' = pc[th].old[1] /\ Goto(th, "unlock")
            ELSE config' = config /\ Goto(th, "stamp")
       ELSE /\ config' = config
            /\ Goto(th, IF validate(pc[th].arg[1]) # Nil THEN "unlock"
                        ELSE "observers")
    /\ UNCHANGED <<setup, impl, timestamp, now, persisted, registries, counters,
                   trace, ret, mu, seen, quiet>>

\* go f(config) for every callback: the goroutines wait in pending until
\* they run; of more than MaxCalls waiting ones the newest never run.
Started ==
    [f \in Counted |->
        LET n == pending[f]
                   + Cardinality({i \in DOMAIN callbacks : callbacks[i] = f})
        IN IF n > MaxCalls THEN MaxCalls ELSE n]

\* cog.notify(new) of C, which ends with the go statements, c.bound(new)
\* of Config.
Observers(th) ==
    /\ At(th, "observers")
    /\ \E order \in Perms(DOMAIN subscribers) :
         LET r == IF impl = "C"
                  THEN notify(pc[th].arg[1], order, <<>>, config)
                  ELSE bound(1, pc[th].arg[1], config, <<>>)
         IN /\ Goto(th, IF r.err # Nil THEN "unlock" ELSE "commit")
            /\ pending' = IF impl = "C" /\ r.err = Nil THEN Started
                          ELSE pending
    /\ UNCHANGED <<setup, impl, store, registries, calls, due, trace, ret, mu,
                   seen, quiet>>

\* cog.config = new
Commit(th) ==
    /\ At(th, "commit")
    /\ config' = pc[th].arg[1]
    /\ Goto(th, "stamp")
    /\ UNCHANGED <<setup, impl, timestamp, now, persisted, registries, counters,
                   trace, ret, mu, seen, quiet>>

\* First statement of save(): updateTimestamp().
Stamp(th) ==
    /\ At(th, "stamp")
    /\ \E t \in Clock(MaxTime) :
         /\ timestamp' = updateTimestamp(t)
         /\ now' = t
    /\ Goto(th, "persist")
    /\ UNCHANGED <<setup, impl, config, persisted, registries, counters, trace, ret,
                   mu, seen, quiet>>

\* Second statement of save(): handler.Save(data).  trace keeps the call.
Persist(th) ==
    /\ At(th, "persist")
    /\ \E res \in SaveResults :
         /\ persisted' = IF res = "" THEN config ELSE persisted
         /\ trace' = <<Event("save", 0, res, config)>>
         /\ Goto(th, IF res = "" /\ impl # "C" THEN "notify" ELSE "unlock")
    /\ UNCHANGED <<setup, impl, config, timestamp, now, registries, counters,
                   ret, mu, seen, quiet>>

\* The channel loop and the go statements that end Update in Config and
\* goconfig.
Notify(th) ==
    /\ At(th, "notify")
    /\ \E keyOrder \in Perms(DOMAIN subs) :
         subs' = IF impl = "Config"
                 THEN signal(subs, keyOrder, 1, config).subs
                 ELSE sendIfEmpty(subs, keyOrder, 1, config).subs
    /\ pending' = Started
    /\ Goto(th, "unlock")
    /\ UNCHANGED <<setup, impl, store, subscribers, callbacks, bounds, registered,
                   calls, due, trace, ret, mu, seen, quiet>>

\* return cog.config, resp. return cog.timestamp
Read(th) ==
    /\ At(th, "read")
    /\ seen' = [op |-> pc[th].op,
                val |-> IF pc[th].op = "Config" THEN config ELSE timestamp,
                quiet |-> quiet[pc[th].op]]
    /\ Goto(th, "unlock")
    /\ UNCHANGED <<setup, impl, store, registries, counters, trace, ret, mu, quiet>>

\* The body of AddSubscriber.
PutSubscriber(th) ==
    /\ At(th, "put")
    /\ IF impl = "C"
       THEN /\ subscribers' = Put(subscribers, "ok")
            /\ registered' =
                 Append(Without(registered, Cardinality(DOMAIN subscribers) + 1),
                        Cardinality(DOMAIN subscribers) + 1)
            /\ subs' = subs
       ELSE /\ subs' = [k \in DOMAIN subs \cup {pc[th].arg[1]} |->
                          IF k = pc[th].arg[1] THEN 0 ELSE subs[k]]
            /\ UNCHANGED <<subscribers, registered>>
    /\ Goto(th, "unlock")
    /\ UNCHANGED <<setup, impl, store, callbacks, bounds, counters, trace, ret, mu,
                   seen, quiet>>

Unlock_Join(th) ==
    /\ At(th, "unlock")
    /\ \A f \in Counted : pending[f] = 0
    /\ mu' = ""
    /\ pc' = [pc EXCEPT ![th] = Idle]
    /\ quiet' = Quiet(config, timestamp)
    /\ UNCHANGED <<setup, impl, store, registries, counters, trace, ret, seen>>

\* The deferred Unlock() at return.
Unlock(th) ==
    /\ At(th, "unlock")
    /\ mu' = ""
    /\ pc' = [pc EXCEPT ![th] = Idle]
    /\ quiet' = Quiet(config, timestamp)
    /\ UNCHANGED <<setup, impl, store, registries, counters, trace, ret, seen>>

NextLock ==
    \E th \in Threads :
       \/ Call(th)
       \/ Lock(th)
       \/ Assign(th)
       \/ Validate(th)
       \/ Observers(th)
       \/ Commit(th)
       \/ Stamp(th)
       \/ Persist(th)
       \/ Notify(th)
       \/ Read(th)
       \/ PutSubscriber(th)
       \/ Unlock(th)

SpecLock == Init /\ [][NextLock]_vars

\* ------------------------------------- observers that call the instance
\* A fallible observer of C whose body calls Update on the instance:
\* func(c T) error { return cog.Update(c) }.
Reentrant == \E id \in DOMAIN subscribers : subscribers[id] = "reenter"

\* The body of AddSubscriber, given that observer.
PutReentrant(th) ==
    /\ At(th, "put")
    /\ impl = "C"
    /\ subscribers' = Put(subscribers, "reenter")
    /\ registered' =
         Append(Without(registered, Cardinality(DOMAIN subscribers) + 1),
                Cardinality(DOMAIN subscribers) + 1)
    /\ Goto(th, "unlock")
    /\ UNCHANGED <<setup, impl, store, callbacks, bounds, subs, counters, trace,
                   ret, mu, seen, quiet>>

\* notify calls the observer, whose Update arrives at its cog.Lock() on
\* the thread that is inside notify.  The other observers accept every
\* value, so the loop of notify gets to this one in every order.
Reenter(th) ==
    /\ At(th, "observers")
    /\ Reentrant
    /\ Goto(th, "lock")
    /\ UNCHANGED <<setup, impl, store, registries, counters, trace, ret, mu,
                   seen, quiet>>

InitReentry == Init /\ impl = "C"

NextReentry ==
    \E th \in Threads :
       \/ Call(th)
       \/ Lock(th)
       \/ Validate(th)
       \/ ~Reentrant /\ Observers(th)
       \/ Reenter(th)
       \/ Commit(th)
       \/ Stamp(th)
       \/ Persist(th)
       \/ Read(th)
       \/ PutSubscriber(th)
       \/ PutReentrant(th)
       \/ Unlock(th)

SpecReentry == InitReentry /\ [][NextReentry]_vars

\* The goroutine go f(config) started runs th: the body of the async
\* observer calls Config() or Update, with a value that is valid, on the
\* instance.  A goroutine that never gets here stays in pending.
Spawn(th) ==
    /\ At(th, "idle")
    /\ \E f \in Counted, op \in {"Config", "Update"},
          new \in {d \in Snapshots : validate(d) = Nil} :
         /\ pending[f] > 0
         /\ pending' = [pending EXCEPT ![f] = @ - 1]
         /\ pc' = [pc EXCEPT ![th] =
                     [at |-> "lock", op |-> op, old |-> <<>>,
                      arg |-> IF op = "Update" THEN <<new>> ELSE <<>>]]
    /\ UNCHANGED <<setup, impl, store, registries, calls, due, trace, ret, mu,
                   seen, quiet>>

\* The application calls Update or Config() and arrives at the Lock().
Caller(th) ==
    /\ At(th, "idle")
    /\ \E op \in {"Config", "Update"}, new \in Snapshots :
         pc' = [pc EXCEPT ![th] =
                  [at |-> "lock", op |-> op, old |-> <<>>,
                   arg |-> IF op = "Update" THEN <<new>> ELSE <<>>]]
    /\ UNCHANGED <<setup, impl, store, registries, counters, trace, ret, mu, seen,
                   quiet>>

\* The statements of Update and Config() from the Lock() on, other than
\* the Lock().
Inner(th) ==
    \/ Validate(th)
    \/ Observers(th)
    \/ Commit(th)
    \/ Stamp(th)
    \/ Persist(th)
    \/ Notify(th)
    \/ Read(th)
    \/ Unlock(th)

\* The instance after Init, AddCallback(cb) and AddSubscriber resp.
\* AddBound of an observer that accepts some values and rejects others.
InitAsync ==
    /\ impl \in {"C", "Config"}
    /\ config \in {d \in Snapshots : validate(d) = Nil}
    /\ now = StartTime
    /\ timestamp = FormatInt(now)
    /\ persisted = config
    /\ \E fns \in {<<"picky">>} :
         /\ subscribers = IF impl = "C" THEN fns ELSE <<>>
         /\ bounds = IF impl = "C" THEN <<>> ELSE fns
         /\ registered = IF impl = "C" THEN [i \in DOMAIN fns |-> i] ELSE <<>>
    /\ callbacks = <<"cb">>
    /\ subs = <<>>
    /\ pending = [f \in Counted |-> 0]
    /\ calls = [f \in Counted |-> 0]
    /\ due = [f \in Counted |-> 0]
    /\ trace = <<>>
    /\ ret = Ret("AddCallback", <<"cb">>, Nil, 0)
    /\ mu = ""
    /\ pc = [th \in Threads |-> Idle]
    /\ seen = [op |-> "", val |-> <<>>, quiet |-> <<>>]
    /\ quiet = Quiet(config, timestamp)
    /\ boot = "ready"
    /\ rec = <<>>
    /\ env = <<>>

\* Thread t1 is the application, thread t2 runs the async observers.
NextAsync ==
    \/ Caller("t1")
    \/ Spawn("t2")
    \/ \E th \in Threads : Lock(th) \/ Inner(th)

\* A goroutine that is ready to run runs, and sync.Mutex hands the lock to
\* a goroutine that keeps waiting for it (starvation mode).  Nothing
\* makes the application call, nor an async observer start or finish.
SpecAsync ==
    /\ InitAsync
    /\ [][NextAsync]_vars
    /\ \A th \in Threads : WF_vars(Inner(th)) /\ SF_vars(Lock(th))

\* ------------------------------------------------ the channel send
\* The channel loop of Update statement by statement, for goconfig (under
\* the mutex) and for the older goconfig.Config whose Update takes no lock
\* (impl = "legacy"); Config's select is one statement.  Keys holds one
\* key, so the loop has one round.  The Go runtime's check for concurrent
\* map access is left out: only the channel operations are modelled.
LegacyMethods == {"Update", "AddSubscriber"}

\* th calls a method of the older Config: Update starts at its first
\* statement, AddSubscriber at its Lock().
Legacy_Call(th) ==
    /\ impl = "legacy"
    /\ At(th, "idle")
    /\ \E op \in LegacyMethods, new \in Snapshots, key \in Keys :
         /\ op = "AddSubscriber" => key \notin DOMAIN subs
         /\ pc' = [pc EXCEPT ![th] =
                     [at |-> IF op = "Update" THEN "store" ELSE "lock",
                      op |-> op, old |-> <<>>,
                      arg |-> IF op = "Update" THEN <<new>> ELSE <<key>>]]
    /\ UNCHANGED <<setup, impl, store, registries, counters, trace, ret, mu,
                   seen, quiet>>

\* c.data = newConfig
Legacy_Store(th) ==
    /\ impl = "legacy"
    /\ At(th, "store")
    /\ config' = pc[th].arg[1]
    /\ Goto(th, "save")
    /\ UNCHANGED <<setup, impl, timestamp, now, persisted, registries,
                   counters, trace, ret, mu, seen, quiet>>

\* err := c.handler.Save(c.data); if err != nil { return err }
Legacy_Save(th) ==
    /\ impl = "legacy"
    /\ At(th, "save")
    /\ \E res \in SaveResults :
         /\ persisted' = IF res = "" THEN config ELSE persisted
         /\ trace' = <<Event("save", 0, res, config)>>
         /\ Goto(th, IF res = "" THEN "time" ELSE "return")
    /\ UNCHANGED <<setup, impl, config, timestamp, now, registries, counters,
                   ret, mu, seen, quiet>>

\* c.updateTimestamp()
Legacy_Stamp(th) ==
    /\ impl = "legacy"
    /\ At(th, "time")
    /\ \E t \in Clock(MaxTime) :
         /\ timestamp' = updateTimestamp(t)
         /\ now' = t
    /\ Goto(th, "notify")
    /\ UNCHANGED <<setup, impl, config, persisted, registries, counters,
                   trace, ret, mu, seen, quiet>>

\* Where Update goes after the channel loop.
Done == IF impl = "legacy" THEN "return" ELSE "unlock"

\* if len(channel) != 0 { continue }
Check(th) ==
    /\ impl \in {"goconfig", "legacy"}
    /\ At(th, "notify")
    /\ Goto(th, IF \E k \in DOMAIN subs : subs[k] = 0 THEN "send" ELSE Done)
    /\ UNCHANGED <<setup, impl, store, registries, counters, trace, ret, mu,
                   seen, quiet>>

\* channel <- true: waits while the buffer of capacity one is full.
Send(th) ==
    /\ At(th, "send")
    /\ \E k \in DOMAIN subs :
         /\ subs[k] < 1
         /\ subs' = [subs EXCEPT ![k] = @ + 1]
    /\ Goto(th, Done)
    /\ UNCHANGED <<setup, impl, store, subscribers, callbacks, bounds,
                   registered, counters, trace, ret, mu, seen, quiet>>

\* return nil, resp. return err, of the Update that holds no mutex.
Legacy_Return(th) ==
    /\ impl = "legacy"
    /\ At(th, "return")
    /\ pc' = [pc EXCEPT ![th] = Idle]
    /\ UNCHANGED <<setup, impl, store, registries, counters, trace, ret, mu,
                   seen, quiet>>

InitSignal == Fresh /\ impl \in {"Config", "goconfig", "legacy"}

NextSignal ==
    \/ \E th \in Threads :
          \/ impl # "legacy" /\ Call(th)
          \/ Legacy_Call(th)
          \/ Lock(th)
          \/ Assign(th)
          \/ Validate(th)
          \/ Observers(th)
          \/ Commit(th)
          \/ Stamp(th)
          \/ Persist(th)
          \/ impl = "Config" /\ Notify(th)
          \/ Check(th)
          \/ Send(th)
          \/ Read(th)
          \/ PutSubscriber(th)
          \/ Unlock(th)
          \/ Legacy_Store(th)
          \/ Legacy_Save(th)
          \/ Legacy_Stamp(th)
          \/ Legacy_Return(th)
    \/ Receive

SpecSignal == InitSignal /\ [][NextSignal]_vars

\* ---------------------------------------------------- reading a step
IsUpdate == ret.op = "Update"

\* The value passed to the Update just made.
Arg == ret.args[1]

\* The function registered under a fallible observer's id.
FallibleFn(id) == IF impl = "C" THEN subscribers[id] ELSE bounds[id]

FallibleIds == IF impl = "C" THEN DOMAIN subscribers ELSE DOMAIN bounds

\* Ids of the fallible observers that can be called, oldest registration
\* first.
RegOrder ==
    IF impl = "C"
    THEN SelectSeq(registered, LAMBDA id : subscribers[id] # "nil")
    ELSE [i \in 1..Len(bounds) |-> i]

EventsOf(op) == SelectSeq(trace, LAMBDA e : e.op = op)

IdsOf(op) == [i \in 1..Len(EventsOf(op)) |-> EventsOf(op)[i].id]

EventsAt(id) ==
    SelectSeq(trace, LAMBDA e : e.op \in {"call", "rollback"} /\ e.id = id)

IsPrefix(p, q) == Len(p) <= Len(q) /\ \A i \in 1..Len(p) : p[i] = q[i]

Distinct(q) == \A i, j \in 1..Len(q) : q[i] = q[j] => i = j

\* The errors the fallible observers returned to the Update just made.
Rejections ==
    {CallFn(FallibleFn(trace[i].id), trace[i].val) :
        i \in {j \in DOMAIN trace : trace[j].op = "call"}} \ {Nil}

\* Some fallible observer returned an error to the Update just made.
Rejected == IsUpdate /\ Rejections # {}

\* ----------------------------------------------------------------- C1
\* C1: an Update with a value that fails validation returns a validation
\* error and leaves the snapshot and the timestamp as they were.
C1_InvalidUpdateKeepsStore ==
    [][(IsUpdate' /\ validate(Arg') # Nil) =>
         /\ ret'.err.kind = "validate"
         /\ config' = config
         /\ timestamp' = timestamp]_vars

C1_Witness ==
    /\ IsUpdate
    /\ validate(Arg) # Nil
    /\ ret.err.kind = "validate"
    /\ Arg # config

\* ----------------------------------------------------------------- C2
\* C2: an Update rejected at validation calls no fallible observer, starts
\* no goroutine, enqueues no token and does not call Save.
C2_InvalidUpdateNoSideEffect ==
    [][(IsUpdate' /\ validate(Arg') # Nil) =>
         /\ trace' = <<>>
         /\ pending' = pending
         /\ subs' = subs
         /\ persisted' = persisted]_vars

C2_Witness ==
    /\ IsUpdate
    /\ ret.err.kind = "validate"
    /\ FallibleIds # {}
    /\ \E i \in DOMAIN callbacks : callbacks[i] = "cb"

\* ----------------------------------------------------------------- C3
\* C3: when a fallible observer returns an error, Update returns an error
\* carrying it, the snapshot and the timestamp stay as they were and Save is
\* not called.
C3_RejectionKeepsStore ==
    [][Rejected' =>
         /\ ret'.err \in {Errorf("subscriber", e.cause) : e \in Rejections'}
         /\ config' = config
         /\ timestamp' = timestamp
         /\ persisted' = persisted
         /\ EventsOf("save")' = <<>>]_vars

C3_Witness ==
    /\ Rejected
    /\ ret.err.kind = "subscriber"
    /\ Arg # config

\* ----------------------------------------------------------------- C4
\* Two subscribers on cog.C, A registered first and always accepting, B
\* registered second and always failing, and an Update with a valid value.
C4_Case ==
    /\ impl = "C"
    /\ IsUpdate
    /\ validate(Arg) = Nil
    /\ Len(registered) = 2
    /\ DOMAIN subscribers = Range(registered)
    /\ subscribers[registered[1]] = "ok"
    /\ subscribers[registered[2]] = "fail"

C4_Twice ==
    EventsAt(registered[1]) =
        <<Event("call", registered[1], "", Arg),
          Event("rollback", registered[1], "", config)>>

C7_Rollback ==
    Rejected =>
      LET c == IdsOf("call")
      IN /\ trace = EventsOf("call") \o EventsOf("rollback")
         /\ IdsOf("rollback") = SubSeq(c, 1, Len(c) - 1)
         /\ \A i \in 1..Len(EventsOf("rollback")) :
              EventsOf("rollback")[i].val = config
         /\ ret.err = Errorf("subscriber",
                             CallFn(FallibleFn(c[Len(c)]), Arg).cause)

C7_Witness ==
    /\ Rejected
    /\ Len(IdsOf("rollback")) = 2
    /\ IdsOf("rollback")[1] # IdsOf("rollback")[2]
    /\ \E i \in 1..Len(EventsOf("rollback")) :
         CallFn(FallibleFn(EventsOf("rollback")[i].id), config) # Nil

\* ----------------------------------------------------------------- C8
\* C8: a valid value that every fallible observer accepts and that Save
\* stores makes Update return nil with exactly that value as the snapshot.
C8_CommitWhole ==
    (/\ IsUpdate
     /\ validate(Arg) = Nil
     /\ \A id \in Range(RegOrder) : CallFn(FallibleFn(id), Arg) = Nil
     /\ \A i \in 1..Len(EventsOf("save")) : EventsOf("save")[i].key = "")
    => (ret.err = Nil /\ config = Arg)

C8_Witness ==
    /\ IsUpdate
    /\ ret.err = Nil
    /\ Arg.Name = ""
    /\ config.Name = ""
    /\ Range(RegOrder) # {}

\* ----------------------------------------------------------------- C9
\* C9 as stated: a successful Update changes the timestamp.
C9_Original ==
    [][(IsUpdate' /\ ret'.err = Nil) => timestamp' # timestamp]_vars

\* C9: after a successful Update the timestamp is the decimal Unix second
\* read by that Update; it differs from the one before exactly when the
\* second differs from the second of the stamp before.
C9_StampIsSecond ==
    [][(IsUpdate' /\ ret'.err = Nil) =>
         /\ timestamp' = FormatInt(now')
         /\ (timestamp' # timestamp) <=> (now' # now)]_vars

C9_Witness ==
    /\ IsUpdate
    /\ ret.err = Nil
    /\ now = StartTime
    /\ timestamp = FormatInt(StartTime)

\* ---------------------------------------------------------------- C10
\* C10: when no goroutine is left to run, a callback has been invoked once
\* per successful Update made while it was registered.
C10_OncePerSuccessfulUpdate ==
    (\A f \in Counted : pending[f] = 0) =>
        \A f \in Counted : calls[f] = due[f]

\* ---------------------------------------------------------------- C11
\* C11 as stated, step by step: the number of times a registered fallible
\* observer has been invoked grows by one with every successful Update and
\* with nothing else.
C11_Original ==
    IsUpdate =>
      \A id \in Range(RegOrder) :
         Len(EventsAt(id)) = IF ret.err = Nil THEN 1 ELSE 0

\* C11: a successful Update invokes every registered non-nil fallible
\* observer exactly once, with the new value, before it returns; an Update
\* rejected at validation invokes none; any other failing Update invokes
\* each at most twice (the new value, then the old one).
C11_OncePerSuccessfulUpdate ==
    IsUpdate =>
      \A id \in Range(RegOrder) :
         /\ ret.err = Nil => EventsAt(id) = <<Event("call", id, "", Arg)>>
         /\ validate(Arg) # Nil => EventsAt(id) = <<>>
         /\ Len(EventsAt(id)) <= 2
         /\ Len(EventsAt(id)) = 2 =>
              EventsAt(id) = <<Event("call", id, "", Arg),
                               Event("rollback", id, "", config)>>

C11_Witness ==
    /\ IsUpdate
    /\ ret.err = Nil
    /\ Len(RegOrder) >= 2
    /\ Len(IdsOf("call")) = Len(RegOrder)

\* ---------------------------------------------------------------- C12
\* C12: when handler.Save fails in an Update that got that far, Update
\* returns the Save error, the snapshot is the new value and what the
\* handler holds is what it held before.
C12_SaveFailureKeepsCommit ==
    [][(IsUpdate' /\ \E i \in DOMAIN trace' :
                        trace'[i].op = "save" /\ trace'[i].key # "") =>
         /\ \E i \in DOMAIN trace' :
              /\ trace'[i].op = "save"
              /\ ret'.err = Errorf("save", trace'[i].key)
         /\ config' = Arg'
         /\ persisted' = persisted]_vars

C12_Witness ==
    /\ IsUpdate
    /\ ret.err.kind = "save"
    /\ config = Arg
    /\ persisted # config

\* ---------------------------------------------------------------- C13
\* C13: in an Update of cog.C every goroutine start comes after the store
\* of the new snapshot and after the call of handler.Save.
C13_LaunchAfterPersist ==
    (impl = "C" /\ IsUpdate) =>
      \A i \in DOMAIN trace :
         trace[i].op = "go" =>
           /\ \E j \in 1..(i - 1) : trace[j].op = "store"
           /\ \E j \in 1..(i - 1) : trace[j].op = "save"

\* ---------------------------------------------------------------- C14
\* C14: the snapshot of a live instance always passes validation.
C14_SnapshotValid == validate(config) = Nil

C14_Witness ==
    /\ IsUpdate
    /\ validate(Arg) # Nil
    /\ validate(config) = Nil
    /\ impl = "goconfig"

\* ---------------------------------------------------------------- C16
\* C16: within one map the ids returned by Add grow and none comes back:
\* an Add returns an id above every id still registered, and not the id
\* that the step just before removed.
C16_IdsGrowAndNeverComeBack ==
    [][/\ (impl = "C" /\ ret'.op = "AddSubscriber") =>
            /\ \A i \in DOMAIN subscribers : ret'.id > i
            /\ (ret.op = "RemoveSubscriber" /\ ret.err = Nil) =>
                  ret'.id # ret.id
       /\ (impl = "C" /\ ret'.op = "AddCallback") =>
            /\ \A i \in DOMAIN callbacks : ret'.id > i
            /\ (ret.op = "RemoveCallback" /\ ret.err = Nil) =>
                  ret'.id # ret.id]_vars

\* ---------------------------------------------------------------- C17
\* C17: the id an Add returns is not registered at the time, so the map
\* grows by one entry and no entry is replaced.
C17_AddNeverReplaces ==
    [][/\ (impl = "C" /\ ret'.op = "AddSubscriber") =>
            /\ ret'.id \notin DOMAIN subscribers
            /\ Cardinality(DOMAIN subscribers') =
                  Cardinality(DOMAIN subscribers) + 1
       /\ (impl = "C" /\ ret'.op = "AddCallback") =>
            /\ ret'.id \notin DOMAIN callbacks
            /\ Cardinality(DOMAIN callbacks') =
                  Cardinality(DOMAIN callbacks) + 1]_vars

\* ---------------------------------------------------------------- C18
\* C18: a Remove with an id that is not registered returns a not-found
\* error and changes neither map, nor the snapshot, nor the timestamp.
C18_RemoveUnknownId ==
    [][(/\ impl = "C"
        /\ \/ ret'.op = "RemoveSubscriber"
                 /\ ret'.args[1] \notin DOMAIN subscribers
           \/ ret'.op = "RemoveCallback"
                 /\ ret'.args[1] \notin DOMAIN callbacks) =>
         /\ ret'.err.kind = "notfound"
         /\ UNCHANGED <<subscribers, callbacks, config, timestamp>>]_vars

C18_Witness ==
    /\ ret.op = "RemoveCallback"
    /\ ret.err.kind = "notfound"
    /\ DOMAIN callbacks # {}
    /\ DOMAIN subscribers # {}

\* ---------------------------------------------------------------- C19
\* C19: a successful Remove takes the id out of its map and leaves every
\* other entry under its id; an Update calls and starts only observers
\* that are registered, and a successful one all the non-nil ones.
C19_RemovedIsGone ==
    [][/\ (impl = "C" /\ ret'.op = "RemoveSubscriber" /\ ret'.err = Nil) =>
            /\ ret'.id \in DOMAIN subscribers
            /\ DOMAIN subscribers' = DOMAIN subscribers \ {ret'.id}
            /\ \A i \in DOMAIN subscribers' : subscribers'[i] = subscribers[i]
       /\ (impl = "C" /\ ret'.op = "RemoveCallback" /\ ret'.err = Nil) =>
            /\ ret'.id \in DOMAIN callbacks
            /\ DOMAIN callbacks' = DOMAIN callbacks \ {ret'.id}
            /\ \A i \in DOMAIN callbacks' : callbacks'[i] = callbacks[i]
       /\ (impl = "C" /\ IsUpdate') =>
            /\ Range(IdsOf("call")') \subseteq DOMAIN subscribers
            /\ Range(IdsOf("go")') \subseteq DOMAIN callbacks
            /\ ret'.err = Nil =>
                 /\ Range(IdsOf("call")') =
                      {i \in DOMAIN subscribers : subscribers[i] # "nil"}
                 /\ Range(IdsOf("go")') =
                      {i \in DOMAIN callbacks : callbacks[i] # "nil"}]_vars

C19_Witness ==
    /\ IsUpdate
    /\ ret.err = Nil
    /\ DOMAIN callbacks = {2}
    /\ IdsOf("go") = <<2>>
    /\ Len(IdsOf("call")) = 1

\* ---------------------------------------------------------------- C20
\* C20: a signal channel never holds more than one token, and right after
\* a successful Update every registered channel holds exactly one, however
\* many Updates went by without a read.
C20_OneToken ==
    /\ \A k \in DOMAIN subs : subs[k] <= 1
    /\ (IsUpdate /\ ret.err = Nil) => \A k \in DOMAIN subs : subs[k] = 1

\* A successful Update found the channel already full.
C20_Witness ==
    /\ IsUpdate
    /\ ret.err = Nil
    /\ DOMAIN subs # {}
    /\ \A k \in DOMAIN subs : subs[k] = 1
    /\ EventsOf("signal") = <<>>

\* ---------------------------------------------------------------- C21
\* C21: a signal channel that AddSubscriber has just made holds no token,
\* and right after a successful Update every registered channel holds a
\* token, so that a receive on it does not block.
C21_FreshEmptyThenToken ==
    [][/\ (ret'.op = "AddSubscriber" /\ impl # "C")
            => subs'[ret'.args[1]] = 0
       /\ (IsUpdate' /\ ret'.err = Nil)
            => \A k \in DOMAIN subs' : subs'[k] > 0]_vars

\* A successful Update put the token into a channel that held none.
C21_Witness ==
    /\ IsUpdate
    /\ ret.err = Nil
    /\ impl = "goconfig"
    /\ "k1" \in DOMAIN subs
    /\ subs["k1"] = 1
    /\ \E i \in 1..Len(trace) : trace[i].op = "signal" /\ trace[i].key = "k1"

\* ---------------------------------------------------------------- C22
\* C22: no Update ever waits at the send on a signal channel: whenever a
\* thread is at the send, the channel has room, so that the send completes
\* without any help from the consumer.
C22_SendNeverWaits ==
    \A th \in Threads :
       At(th, "send") => \E k \in DOMAIN subs : subs[k] = 0

InFlight ==
    {th \in Threads : pc[th].op = "Update" /\ pc[th].at \notin {"idle", "lock"}}

\* The most recent handler.Save, of Init or of an Update, returned nil.
LastSaveOk == trace = <<>> \/ trace[1].key = ""

\* C27: whenever no Update is in flight and the most recent Save succeeded,
\* the storage holds the snapshot that Config() returns, whatever the
\* interleaving of the concurrent calls was.
C27_PersistedIsSnapshot ==
    (InFlight = {} /\ LastSaveOk) => persisted = config

\* An Update has saved and returned while another Update waits at the
\* mutex.
C27_Witness ==
    /\ InFlight = {}
    /\ trace # <<>>
    /\ LastSaveOk
    /\ persisted = config
    /\ trace[1].val = config
    /\ mu = ""
    /\ \E th \in Threads : At(th, "lock") /\ pc[th].op = "Update"

\* ---------------------------------------------------------------- C28
\* The record the latest run of the resolution was given.
Given == ret.args[1]

\* The value the string s stands for in a field of kind k, where it
\* stands for one.
Parses(k, s) ==
    CASE k = "int" -> Atoi(s).ok
      [] k = "bool" -> ParseBool(s).ok
      [] OTHER -> TRUE

Parsed(k, s) ==
    CASE k = "int" -> Atoi(s).val
      [] k = "bool" -> ParseBool(s).val
      [] OTHER -> s

\* The field holds the zero value of its kind.
IsZero(f) == f.val = Zero(f.kind)

\* Field i was empty and settable, and carries both tags, the variable of
\* its env: tag being set to a value of its kind.
BothApply(i) ==
    /\ Given[i].kind # "struct"
    /\ Given[i].exported
    /\ IsZero(Given[i])
    /\ Given[i].env # ""
    /\ env[Given[i].env] # <<>>
    /\ Parses(Given[i].kind, env[Given[i].env])
    /\ Given[i].def # <<>>

\* C28: an empty field with both an environment value and a default
\* literal resolves to the environment value, for every kind and every
\* environment value of that kind.
C28_EnvironmentBeatsDefault ==
    (ret.op = "Set" /\ ret.err = Nil) =>
        \A i \in 1..Len(Given) :
           BothApply(i) =>
               rec[i].val = Parsed(Given[i].kind, env[Given[i].env])

\* ---------------------------------------------------------------- C29
\* C29: a field that held a non-zero value when the resolution started
\* holds the same value afterwards, whatever its tags and the environment.
C29_NonZeroUntouched ==
    ret.op = "Set" =>
        \A i \in 1..Len(Given) :
           (Given[i].kind # "struct" /\ ~IsZero(Given[i]))
               => rec[i] = Given[i]

\* A set field kept its value although the environment and the default
\* literal both offered another one.
C29_Witness ==
    /\ ret.op = "Set"
    /\ ret.err = Nil
    /\ \E i \in 1..Len(Given) :
         /\ Given[i].kind = "int"
         /\ Given[i].val = 3
         /\ Given[i].env # ""
         /\ env[Given[i].env] = <<"7">>
         /\ Given[i].def = <<"1">>
         /\ rec[i].val = 3

\* ---------------------------------------------------------------- C30
\* C30: a second run of the resolution on the result of the first, in the
\* same environment, changes nothing.
C30_Idempotent ==
    (ret.op = "Set" /\ Len(trace) = 2) => rec = Given

\* The first run filled a field, the second run left the record alone.
C30_Witness ==
    /\ ret.op = "Set"
    /\ Len(trace) = 2
    /\ trace[1].val # trace[2].val
    /\ rec = trace[2].val
    /\ \E i \in 1..Len(rec) :
         rec[i].kind = "struct" /\ ~IsZero(rec[i].inner[1])

\* ---------------------------------------------------------------- C31
\* Field i is an empty, settable int or bool field whose env: variable is
\* set to a string that does not stand for a value of its kind.
EnvMalformed(i) ==
    /\ Given[i].kind \in {"int", "bool"}
    /\ Given[i].exported
    /\ IsZero(Given[i])
    /\ Given[i].env # ""
    /\ env[Given[i].env] # <<>>
    /\ ~Parses(Given[i].kind, env[Given[i].env])

\* C31: an empty int or bool field whose environment value does not parse
\* is left at its zero value and the resolution reports no error, also
\* when the field declares a default literal.
C31_MalformedEnvLeavesZero ==
    ret.op = "Set" =>
        \A i \in 1..Len(Given) :
           (EnvMalformed(i) /\ \A j \in 1..Len(Given) : Given[j].exported)
               => (ret.err = Nil /\ rec[i].val = Zero(Given[i].kind))

\* ---------------------------------------------------------------- C32
\* C32: a scalar field of a kind other than bool, int and string holds the
\* same value after the resolution as before, whatever its tags and the
\* environment offer.
C32_OtherKindsUntouched ==
    ret.op = "Set" =>
        \A i \in 1..Len(Given) :
           Given[i].kind \notin Kinds \cup {"struct"} => rec[i] = Given[i]

\* An empty int64 field kept its zero although the environment and the
\* default literal both offered a number.
C32_Witness ==
    /\ ret.op = "Set"
    /\ ret.err = Nil
    /\ \E i \in 1..Len(Given) :
         /\ Given[i].kind = "int64"
         /\ Given[i].val = 0
         /\ Given[i].env # ""
         /\ env[Given[i].env] = <<"7">>
         /\ Given[i].def = <<"1">>
         /\ rec[i].val = 0

\* ---------------------------------------------------------------- C33
\* Every empty, settable scalar field of g with a default literal and no
\* env: tag holds its default in r, at every depth.
RECURSIVE Defaulted(_, _)
Defaulted(g, r) ==
    \A i \in 1..Len(g) :
       IF g[i].kind = "struct" THEN Defaulted(g[i].inner, r[i].inner)
       ELSE (g[i].exported /\ IsZero(g[i]) /\ g[i].def # <<>>
                /\ g[i].env = "")
              => r[i].val = Parsed(g[i].kind, g[i].def)

\* C33: when the resolution returns without an error, every empty scalar
\* field with a default literal holds its default, at the top level and
\* inside nested records, wherever the nested record stands.
C33_DefaultsAtEveryDepth ==
    (ret.op = "Set" /\ ret.err = Nil) => Defaulted(Given, rec)

\* ---------------------------------------------------------------- C24
\* The value Init validates: what Load left, with env and defaults applied.
Candidate == FromRec(Set(ToRec(trace[1].val), env).rec)

\* C24: when the value Init has loaded and resolved fails validation, Init
\* returns the validation error and no instance, and never calls Save.
C24_InvalidAtInit ==
    (ret.op = "Init" /\ trace # <<>>
        /\ (impl = "legacy" => trace[1].key = "")
        /\ validate(Candidate) # Nil)
    => /\ boot = "failed"
       /\ ret.err = validate(Candidate)
       /\ EventsOf("save") = <<>>

\* The storage was readable and held a record without Version.
C24_Witness ==
    /\ ret.op = "Init"
    /\ boot = "failed"
    /\ trace[1].key = ""
    /\ trace[1].val.Version = 0
    /\ ret.err.kind = "validate"
    /\ Len(trace) = 1

\* ---------------------------------------------------------------- C25
\* C25: when handler.Save fails during Init, Init returns that error and
\* no instance.
C25_SaveFailsAtInit ==
    (ret.op = "Init" /\ \E i \in 1..Len(trace) :
                            trace[i].op = "save" /\ trace[i].key # "")
    => /\ boot = "failed"
       /\ ret.err = Errorf("save", "filehandler error")

\* Load, defaults and validation went through, Save did not.
C25_Witness ==
    /\ ret.op = "Init"
    /\ boot = "failed"
    /\ ret.err.kind = "save"
    /\ Len(trace) = 2
    /\ trace[2].op = "save"
    /\ validate(trace[2].val) = Nil

\* ---------------------------------------------------------------- C26
\* C26: when handler.Load fails, Init returns a load error and no
\* instance.
C26_LoadFailsAtInit ==
    (ret.op = "Init" /\ trace # <<>> /\ trace[1].key # "")
    => /\ boot = "failed"
       /\ ret.err.kind = "load"

\* ---------------------------------------------------------------- C39
\* Load succeeded and the storage held the empty string for Name.
StoredZero ==
    /\ ret.op = "Init"
    /\ Len(trace) > 0
    /\ trace[1].op = "load"
    /\ trace[1].key = ""
    /\ trace[1].val.Name = <<>>

RegistryOps ==
    {"AddCallback", "RemoveCallback", "AddSubscriber", "RemoveSubscriber",
     "AddBound", "GetSubscriber"}

\* C40: an Update, whatever it returns, leaves the fallible observers, the
\* async observers and the set of legacy slots as they were; an operation
\* on the registry leaves the snapshot, the timestamp and the persisted
\* content as they were.
C40_RegistryAndStoreApart ==
    [][/\ IsUpdate' =>
            /\ UNCHANGED <<subscribers, registered, bounds, callbacks>>
            /\ DOMAIN subs' = DOMAIN subs
       /\ ret'.op \in RegistryOps =>
            UNCHANGED <<config, timestamp, persisted>>]_vars

\* An Update that an observer rejected has returned with observers of
\* both kinds registered.
C40_Witness ==
    /\ Rejected
    /\ FallibleIds # {}
    /\ DOMAIN callbacks # {}

\* ---------------------------------------------------------------- C38
\* Event k of the Update just made is a call that returned an error.
Vetoed(k) ==
    /\ trace[k].op = "call"
    /\ CallFn(FallibleFn(trace[k].id), trace[k].val) # Nil

\* C38: after a fallible observer has returned an error to an Update, the
\* Update calls no observer with the new value any more, and the rollback
\* reaches only observers that were called before the error.
C38_NoCallAfterVeto ==
    IsUpdate =>
        \A k \in DOMAIN trace :
           Vetoed(k) =>
               \A j \in (k + 1)..Len(trace) :
                  /\ trace[j].op # "call"
                  /\ trace[j].op = "rollback" =>
                        \E i \in 1..(k - 1) :
                           trace[i].op = "call" /\ trace[i].id = trace[j].id

\* An observer vetoed the Update, an earlier one was rolled back, and a
\* third, callable one saw nothing of it.
C38_Witness ==
    /\ Rejected
    /\ EventsOf("rollback") # <<>>
    /\ \E id \in FallibleIds :
         FallibleFn(id) # "nil" /\ EventsAt(id) = <<>>

\* ---------------------------------------------------------------- C37
\* The last invocation of observer id in the Update just made.
LastAt(id) == EventsAt(id)[Len(EventsAt(id))]

\* Observer id was invoked in the Update just made and returned success
\* to its last invocation.
Content(id) ==
    /\ EventsAt(id) # <<>>
    /\ CallFn(FallibleFn(id), LastAt(id).val) = Nil

\* C37, as the step that keeps it from one Update to the next: an observer
\* whose last invocation in an Update returned success received the
\* snapshot the instance holds when the Update returns, and an Update that
\* passes a callable observer by leaves the snapshot as it was, so what
\* the observer received last is still the snapshot.  (No observer has
\* been invoked when Init returns, and the registry operations neither
\* invoke one nor change the snapshot.)
C37_ContentObserversHoldSnapshot ==
    [][IsUpdate' =>
         \A id \in FallibleIds :
            /\ Content(id)' => LastAt(id)'.val = config'
            /\ (FallibleFn(id) # "nil" /\ EventsAt(id)' = <<>>) =>
                  config' = config]_vars

\* An observer accepted a new value, a later one vetoed it, and the
\* rollback handed the first one the snapshot again.
C37_Witness ==
    /\ Rejected
    /\ \E id \in FallibleIds :
         /\ Len(EventsAt(id)) = 2
         /\ EventsAt(id)[1].val # config
         /\ LastAt(id).op = "rollback"
         /\ LastAt(id).val = config
         /\ Content(id)

\* ---------------------------------------------------------------- C34
\* A fallible observer called Update from inside notify: its thread is at
\* Lock() and holds the mutex itself.
SelfLocked == \E th \in Threads : mu = th /\ At(th, "lock")

\* C34: from then on the mutex is never released: the thread stays at
\* that Lock(), so the outer Update does not return, and every other call
\* stays where it is, which is at its Lock() as soon as it is made.  (Every
\* method of C starts with cog.Lock(); Update, Config, GetTimestamp and
\* AddSubscriber stand for them.)
C34_ReentrantObserverDeadlocks ==
    [][SelfLocked =>
         /\ mu' = mu
         /\ \A th \in Threads :
              /\ At(th, "lock") => At(th, "lock")'
              /\ ~At(th, "idle") => ~At(th, "idle")']_vars

\* The thread of the Update is stuck at the inner Lock() and the other
\* thread waits at the Lock() of Config().
C34_Witness ==
    /\ mu = "t1"
    /\ At("t1", "lock")
    /\ pc["t1"].op = "Update"
    /\ At("t2", "lock")
    /\ pc["t2"].op = "Config"

\* ---------------------------------------------------------------- C35
\* C35: every Update returns, the one of the application and the one an
\* async observer makes, whether or not the goroutines of the async
\* observers ever run, and while they call Config() and Update themselves.
C35_UpdateOutrunsAsyncObservers ==
    \A th \in Threads : (pc[th].op = "Update") ~> At(th, "idle")

\* The application is inside an Update, one async observer waits at the
\* Lock() of its own Update, another one has not started to run.
C35_Witness ==
    /\ mu = "t1"
    /\ pc["t1"].op = "Update"
    /\ At("t2", "lock")
    /\ pc["t2"].op = "Update"
    /\ \E f \in Counted : pending[f] > 0

\* ---------------------------------------------------------------- C36
\* C36: a call that has returned does not hold the lock, every call that
\* holds the lock gives it up, on every path through Update, and every
\* call that waits for the lock gets it.
C36_UpdateReleasesLock ==
    /\ [](\A th \in Threads : At(th, "idle") => mu # th)
    /\ \A th \in Threads : (mu = th) ~> (mu = "")
    /\ \A th \in Threads : At(th, "lock") ~> (mu = th)

\* An Update whose Save failed has returned, the lock is free and the
\* other thread is at its Lock().
C36_Witness ==
    /\ mu = ""
    /\ At("t1", "idle")
    /\ trace # <<>>
    /\ trace[1].op = "save"
    /\ trace[1].key # ""
    /\ At("t2", "lock")

\* ---------------------------------------------------------------- C15
\* The threads that are past Lock() and before Unlock().
Inside == {th \in Threads : pc[th].at \notin {"idle", "lock"}}

\* An Update has stored or stamped and not yet returned.
MidUpdate ==
    \E th \in Inside :
       pc[th].op = "Update" /\ Quiet(config, timestamp) # quiet

\* C15: at most one thread is inside a method of the instance at a time,
\* and Config() and GetTimestamp() return what the last method to return
\* left, never a value from the middle of an Update.
C15_MutualExclusion ==
    /\ Cardinality(Inside) <= 1
    /\ \A th \in Inside : mu = th
    /\ seen.val = seen.quiet
    /\ \A th \in Inside : pc[th].op # "Update" => ~MidUpdate

C15_Witness ==
    /\ MidUpdate
    /\ \E th \in Threads : pc[th].at = "lock" /\ pc[th].op = "Config"
    /\ \E th \in Threads : pc[th].at = "persist"
    /\ seen.op = "GetTimestamp"
====
